---- MODULE Spec2Model ----
(***************************************************************************)
(* watgbridge: the rate-limited send queues (package queue) and the topic  *)
(* reconciliation scheduler (package scheduler, and the older copy of it   *)
(* in package utils).                                                      *)
(***************************************************************************)
EXTENDS Integers, Sequences, FiniteSets, TLC

(***************************************************************************)
(* Bounds of the model.                                                    *)
(***************************************************************************)
\* Capacity of waJobCh / tgJobCh.  queue.go:21 sets 1000; the model scales it.
QueueSize == 2
\* Number of application goroutines that call WaSend / TgRun (one call each).
NumCallers == 4
\* How many times StartWorkers may be called (the comment asks for exactly once).
MaxStarts == 2

\* Forum thread ids run from 0 to MaxThread.
MaxThread == 3
\* msg_id_pairs rows a thread starts with, when it has any.
MaxMsgs == 2
\* An error text given to the classifiers is built of at most MaxFrags pieces.
MaxFrags == 2
\* Number of application goroutines sending while the schedulers tick.
MaxProbeApps == 2
\* Number of runs of cleanupDeletedTopics two goroutines start between them.
MaxTicks == 2
\* The sweep history keeps at most MaxSweeps runs.
MaxSweeps == 2

Platforms == {"wa", "tg"}
Apps == 1..NumCallers
\* The job of the scheduler tick (its ReopenForumTopic probe).
TickJob == NumCallers + 1
\* ... and the probe of a second run of cleanupDeletedTopics.
TickJob2 == NumCallers + 2
Jobs == Apps \cup {TickJob, TickJob2}

(***************************************************************************)
(* Go error values: nil, or an error whose Error() text is msg.  A text is *)
(* a sequence of one-character strings.                                    *)
(***************************************************************************)
NilErr == [isNil |-> TRUE, msg |-> <<>>]
Err(text) == [isNil |-> FALSE, msg |-> text]

TxtTopicNotFound == <<"T", "O", "P", "I", "C", "_", "N", "O", "T", "_", "F", "O", "U", "N", "D">>
TxtTopicIdInvalid == <<"T", "O", "P", "I", "C", "_", "I", "D", "_", "I", "N", "V", "A", "L", "I", "D">>
TxtMessageThreadInvalid == <<"M", "E", "S", "S", "A", "G", "E", "_", "T", "H", "R", "E", "A", "D", "_", "I", "N", "V", "A", "L", "I", "D">>
TxtTopicNotModified == <<"T", "O", "P", "I", "C", "_", "N", "O", "T", "_", "M", "O", "D", "I", "F", "I", "E", "D">>

\* Further pieces of Telegram error texts.
TxtBadRequest == <<"B", "a", "d", " ", "R", "e", "q", "u", "e", "s", "t", ":", " ">>
TxtTopicIdInvalidLower == <<"t", "o", "p", "i", "c", "_", "i", "d", "_", "i", "n", "v", "a", "l", "i", "d">>
TxtTopicNotModifiedLower == <<"t", "o", "p", "i", "c", "_", "n", "o", "t", "_", "m", "o", "d", "i", "f", "i", "e", "d">>
TxtThreadInvalidMixed == <<"M", "e", "s", "s", "a", "g", "e", "_", "T", "h", "r", "e", "a", "d", "_", "I", "n", "v", "a", "l", "i", "d">>
TxtTopicNot == <<"T", "O", "P", "I", "C", "_", "N", "O", "T">>
TxtFound == <<"_", "F", "O", "U", "N", "D">>
TxtRetryAfter == <<"T", "o", "o", " ", "M", "a", "n", "y", " ", "R", "e", "q", "u", "e", "s", "t", "s", ":", " ", "r", "e", "t", "r", "y", " ", "a", "f", "t", "e", "r", " ", "5">>

\* The value of an absent result.
None == [v |-> -1, e |-> NilErr]

\* What a job body (SendMessage, or the fn given to TgRun) can return.
Results == {[v |-> 42, e |-> NilErr], [v |-> 0, e |-> Err(TxtRetryAfter)]}

\* QueueIntervalMs values a configuration file can hold.
IntervalChoices == {0, 500}
\* The platform's section of state.State.Config before any configuration is
\* loaded: Go zero values.
ZeroCfg == [QueueEnabled |-> FALSE, QueueIntervalMs |-> 0]
CfgChoices == [QueueEnabled : BOOLEAN, QueueIntervalMs : IntervalChoices]

(***************************************************************************)
(* The package holds two queues of identical code that share no state:     *)
(* waJobCh / waWorker / WaSend / WaInterval and tgJobCh / tgWorker / TgRun *)
(* / TgInterval.  The variables describe one of them, the queue of         *)
(* platform `plat`, which Init chooses.                                    *)
(***************************************************************************)
VARIABLES
    plat,        \* the platform whose queue is described: "wa" or "tg"
    cfg,         \* state.State.Config.<platform>: [QueueEnabled, QueueIntervalMs]
    cfgLoaded,   \* whether the configuration has been loaded
    Interval,    \* WaInterval / TgInterval (ms), set at package init
    jobCh,       \* waJobCh / tgJobCh: Seq(job); a job is named by its submitter
    started,     \* number of StartWorkers calls so far
    idle,        \* number of worker goroutines blocked in the range receive
    exec,        \* the worker goroutines inside job(): a set of [job, rl]
    asleep,      \* number of worker goroutines inside time.Sleep
    slept,       \* the duration the sleeping workers were put to sleep for
    proc,        \* [Apps -> [pc, ret]]: the goroutines inside WaSend / TgRun
    resCh,       \* [Jobs -> Seq(result)]: each call's own `ch`, capacity 1
    enqOrder,    \* history: jobs in the order their sends completed
    startOrder,  \* history: jobs in the order they began executing
    produced,    \* history: [Jobs -> result of the job body]
    execCount,   \* history: [Jobs -> times the job body ran]
    writeCount,  \* history: [Jobs -> values written to the call's ch]
    readCount    \* history: [Jobs -> values read from the call's ch]

(***************************************************************************)
(* The persisted mapping store and the scheduler.                          *)
(***************************************************************************)
VARIABLES
    botPresent,  \* state.State.TelegramBot != nil
    dbPresent,   \* state.State.Database != nil
    pairs,       \* chat_thread_pairs rows: <<tgChatId, tgThreadId>>
    msgs,        \* msg_id_pairs rows: <<tgChatId, tgThreadId, msgId>>
    tick         \* the goroutine running cleanupDeletedTopics

(***************************************************************************)
(* The classifiers applied to one error (the pure functions on their own). *)
(***************************************************************************)
VARIABLES
    clsErr,      \* the error under classification
    clsOut       \* [package -> its classification of clsErr, "-" before]

(***************************************************************************)
(* History of the orphan sweeps.                                           *)
(***************************************************************************)
VARIABLES
    sweep        \* [on, log]: when on, log is the outcomes [ok, rows] of the
                 \* CleanUpMsg runs since the store was last changed otherwise

(***************************************************************************)
(* The scheduler of package utils.                                         *)
(***************************************************************************)
VARIABLES
    legacy       \* the goroutine running cleanupDeletedTopics of package utils

(***************************************************************************)
(* A second goroutine running cleanupDeletedTopics (gocron starts a run    *)
(* when it is due, whether or not the last one has returned), and what the *)
(* runs meet.                                                              *)
(***************************************************************************)
VARIABLES
    other,       \* the goroutine running cleanupDeletedTopics that is not
                 \* taking the next step; `tick` is the one that is
    world,       \* [stable, outcome, reliable]: when stable, the probe of
                 \* thread t returns outcome[t] every time; when reliable,
                 \* the store's reads and deletes succeed
    ov           \* [on, orig, started, ended, overlapped]: when on, the
                 \* store at the start, the runs started and ended, and
                 \* whether two runs were at the deletes of one row at once

qvars == <<plat, cfg, cfgLoaded, Interval, jobCh, started, idle, exec, asleep,
           slept, proc, resCh, enqOrder, startOrder, produced, execCount,
           writeCount, readCount>>
svars == <<botPresent, dbPresent, pairs, msgs, tick>>
cvars == <<clsErr, clsOut>>
hvars == <<sweep>>
xvars == <<legacy, other, world, ov>>
vars == <<qvars, svars, cvars, hvars, xvars>>

(***************************************************************************)
(* Channel helpers.                                                        *)
(***************************************************************************)
\* A send on a buffered channel proceeds iff the buffer is not full.
CanSendUnbounded(q) == TRUE
CanSend(q) == Len(q) < QueueSize

\* `for job := range ch` receives the oldest element.
PopIndexNewest(q) == Len(q)
PopIndex(q) == 1

\* The channel after the receive.
RemoveAt(q, i) == [k \in 1..(Len(q) - 1) |-> IF k < i THEN q[k] ELSE q[k + 1]]
AfterPopKeepsJob(q) == q
AfterPop(q) == RemoveAt(q, PopIndex(q))

\* ch := make(chan result, 1)
ResultChUnbuffered == 1 - 1
ResultChCap == 1

\* The result channel the closure of job j writes to: the `ch` it captured.
JobResultChShared(j) == 1
JobResultCh(j) == j

IsPrefix(s, t) == Len(s) <= Len(t) /\ \A i \in 1..Len(s) : s[i] = t[i]

(***************************************************************************)
(* strings.ToUpper and strings.Contains on texts.                          *)
(***************************************************************************)
UpperMap ==
    ("a" :> "A") @@ ("b" :> "B") @@ ("c" :> "C") @@ ("d" :> "D") @@
    ("e" :> "E") @@ ("f" :> "F") @@ ("g" :> "G") @@ ("h" :> "H") @@
    ("i" :> "I") @@ ("j" :> "J") @@ ("k" :> "K") @@ ("l" :> "L") @@
    ("m" :> "M") @@ ("n" :> "N") @@ ("o" :> "O") @@ ("p" :> "P") @@
    ("q" :> "Q") @@ ("r" :> "R") @@ ("s" :> "S") @@ ("t" :> "T") @@
    ("u" :> "U") @@ ("v" :> "V") @@ ("w" :> "W") @@ ("x" :> "X") @@
    ("y" :> "Y") @@ ("z" :> "Z")
ToUpperNoop(s) == s
ToUpper(s) == [i \in 1..Len(s) |-> IF s[i] \in DOMAIN UpperMap THEN UpperMap[s[i]] ELSE s[i]]

Contains(s, sub) ==
    \E i \in 0..(Len(s) - Len(sub)) : \A j \in 1..Len(sub) : s[i + j] = sub[j]

(***************************************************************************)
(* Package scheduler: isTopicNotFound, isTopicNotModified, and the two     *)
(* tests cleanupDeletedTopics makes of the probe's error.                  *)
(***************************************************************************)
isTopicNotFoundOnlyInvalid(err) ==
    /\ ~err.isNil
    /\ LET m == ToUpper(err.msg)
       IN  Contains(m, TxtTopicIdInvalid) \/ Contains(m, TxtMessageThreadInvalid)
isTopicNotFound(err) ==
    /\ ~err.isNil
    /\ LET m == ToUpper(err.msg)
       IN  \/ Contains(m, TxtTopicNotFound)
           \/ Contains(m, TxtTopicIdInvalid)
           \/ Contains(m, TxtMessageThreadInvalid)

isTopicNotModified(err) ==
    /\ ~err.isNil
    /\ Contains(ToUpper(err.msg), TxtTopicNotModified)

\* scheduler.go:88: probeErr == nil || !isTopicNotFound(probeErr)
TopicAliveOnlyNil(err) == err.isNil
TopicAlive(err) == err.isNil \/ ~isTopicNotFound(err)

\* scheduler.go:90: isTopicNotModified(probeErr)
NeedsResyncAnyError(err) == ~err.isNil
NeedsResync(err) == isTopicNotModified(err)

\* scheduler.go:80: threadId <= 1
SkipThreadOnlyZero(t) == t < 1
SkipThread(t) == t <= 1

\* What cleanupDeletedTopics of package scheduler does with a probe error.
ClassifyScheduler(err) ==
    IF TopicAlive(err)
       THEN IF NeedsResync(err) THEN "Unchanged" ELSE "Exists"
       ELSE "NotFound"

(***************************************************************************)
(* Package utils (the older scheduler): its isTopicNotFound, and what its  *)
(* cleanupDeletedTopics does with a probe error.                           *)
(***************************************************************************)
isTopicNotFoundUtils(err) ==
    /\ ~err.isNil
    /\ LET m == ToUpper(err.msg)
       IN  Contains(m, TxtTopicNotFound) \/ Contains(m, TxtMessageThreadInvalid)

ClassifyUtils(err) ==
    IF err.isNil \/ ~isTopicNotFoundUtils(err) THEN "Exists" ELSE "NotFound"

(***************************************************************************)
(* The store.  cfg.Telegram.TargetChatID is the one group the scheduler    *)
(* looks after; the store may hold rows of another group as well.          *)
(***************************************************************************)
TargetChatID == 100
OtherChatID == TargetChatID + 1
Threads == 0..MaxThread
MsgIds == 1..MaxMsgs
NoRow == <<>>

\* database.ChatThreadGetAllPairs(tgChatId): the pairing rows of the group.
ChatThreadGetAllPairs(P, c) == {p \in P : p[1] = c}

\* database.MsgIdDeletePairsByThreadId(tgChatId, threadId): the rows left.
MsgIdDeletePairsByThreadId(M, c, t) == {m \in M : ~(m[1] = c /\ m[2] = t)}

\* database.ChatThreadDropPairByTg(tgChatId, threadId): the rows left.
ChatThreadDropPairByTg(P, c, t) == {p \in P : ~(p[1] = c /\ p[2] = t)}

\* The rows the DELETE ... LEFT JOIN ... ON a.tg_thread_id = b.tg_thread_id
\* WHERE b.tg_thread_id IS NULL statement of CleanUpMsg deletes.
SweepVictims(M, P) == {m \in M : ~\E p \in P : p[2] = m[2]}

\* msg_id_pairs after the statement has been executed.
SweepResultInBatches(M, P) ==
    M \ {m \in SweepVictims(M, P) : \A n \in SweepVictims(M, P) : m[2] <= n[2]}
SweepResult(M, P) == M \ SweepVictims(M, P)

\* msg_id_pairs rows whose (tgChatId, tgThreadId) has no chat_thread_pairs row.
Orphans(M, P) == {m \in M : <<m[1], m[2]>> \notin P}

MsgsOf(M, c, t) == {m \in M : m[1] = c /\ m[2] = t}

\* The errors a ReopenForumTopic probe returns in the scheduler's runs.
ProbeErrs ==
    {NilErr,
     Err(TxtBadRequest \o TxtTopicNotFound),
     Err(TxtBadRequest \o TxtTopicIdInvalidLower),
     Err(TxtBadRequest \o TxtTopicNotModified),
     Err(TxtRetryAfter)}

\* The errors the probe of a row returns.
ProbeOutcomes(row) ==
    IF world.stable THEN {world.outcome[row[2]]} ELSE ProbeErrs
\* Whether a read or a delete of the store succeeds.
StoreOutcomes == IF world.reliable THEN {TRUE} ELSE BOOLEAN

\* What the body of job j can return.
JobResults(j) ==
    IF j = TickJob THEN {[v |-> 0, e |-> e] : e \in ProbeOutcomes(tick.cur)}
    ELSE IF j = TickJob2 THEN {[v |-> 0, e |-> e] : e \in ProbeOutcomes(other.cur)}
    ELSE Results

TickIdle ==
    [pc |-> "wait", todo |-> {}, cur |-> NoRow, probeErr |-> NilErr,
     act |-> "-", delMsgs |-> "-", delPair |-> "-", clean |-> FALSE,
     sync |-> "-"]

\* The scheduler at rest over an empty store, and the classifiers unused.
SchedQuiet ==
    /\ botPresent = FALSE
    /\ dbPresent = FALSE
    /\ pairs = {}
    /\ msgs = {}
    /\ tick = TickIdle
ClsQuiet ==
    /\ clsErr = NilErr
    /\ clsOut = [k \in {"scheduler", "utils"} |-> "-"]
\* No history of the sweeps is kept.
HistOff ==
    /\ sweep = [on |-> FALSE, log |-> <<>>]

\* cleanupDeletedTopics of package utils not running.
LegacyIdle == [pc |-> "off", todo |-> {}, cur |-> NoRow, probeErr |-> NilErr]
LegacyQuiet ==
    /\ legacy = LegacyIdle

\* One goroutine runs cleanupDeletedTopics; probes return anything, store
\* operations may fail, no history of the runs is kept.
AnyWorld ==
    [stable |-> FALSE, outcome |-> [t \in Threads |-> NilErr], reliable |-> FALSE]
OverlapOff ==
    /\ other = TickIdle
    /\ world = AnyWorld
    /\ ov = [on |-> FALSE, orig |-> [pairs |-> {}, msgs |-> {}],
             started |-> 0, ended |-> 0, overlapped |-> FALSE]

(***************************************************************************)
(* Initial state of the queue package: the package-level variables have    *)
(* been initialised (queue.go:18-25).  WaInterval and TgInterval are       *)
(* computed there, from whatever state.State.Config holds at that moment:  *)
(* the zero configuration, or one loaded by an earlier init.               *)
(***************************************************************************)
QueueInit ==
    /\ plat \in Platforms
    /\ cfgLoaded \in BOOLEAN
    /\ cfg \in CfgChoices
    /\ (~cfgLoaded) => cfg = ZeroCfg
    /\ Interval = cfg.QueueIntervalMs
    /\ jobCh = <<>>
    /\ started = 0
    /\ idle = 0
    /\ exec = {}
    /\ asleep = 0
    /\ slept = 0
    /\ proc = [c \in Apps |-> [pc |-> "idle", ret |-> None]]
    /\ resCh = [c \in Jobs |-> <<>>]
    /\ enqOrder = <<>>
    /\ startOrder = <<>>
    /\ produced = [c \in Jobs |-> None]
    /\ execCount = [c \in Jobs |-> 0]
    /\ writeCount = [c \in Jobs |-> 0]
    /\ readCount = [c \in Jobs |-> 0]
    /\ SchedQuiet
    /\ ClsQuiet
    /\ HistOff
    /\ LegacyQuiet
    /\ OverlapOff

(***************************************************************************)
(* Startup.                                                                *)
(***************************************************************************)
\* The configuration is loaded into state.State.Config (process start-up).
LoadConfig ==
    /\ ~cfgLoaded
    /\ cfgLoaded' = TRUE
    /\ cfg' \in CfgChoices
    /\ UNCHANGED <<plat, Interval, jobCh, started, idle, exec, asleep, slept,
                   proc, resCh, enqOrder, startOrder, produced, execCount,
                   writeCount, readCount>>
    /\ UNCHANGED <<svars, cvars, hvars, xvars>>

\* StartWorkers: go waWorker(); go tgWorker().
StartWorkers ==
    /\ started < MaxStarts
    /\ started' = started + 1
    /\ idle' = idle + 1
    /\ UNCHANGED <<plat, cfg, cfgLoaded, Interval, jobCh, exec, asleep, slept,
                   proc, resCh, enqOrder, startOrder, produced, execCount,
                   writeCount, readCount>>
    /\ UNCHANGED <<svars, cvars, hvars, xvars>>

(***************************************************************************)
(* WaSend (plat = "wa") and TgRun (plat = "tg"), as run by goroutine c.    *)
(* The goroutines are numbered in the order in which they enter the call.  *)
(***************************************************************************)
\* ch := make(chan result, 1); jobCh <- func(){...}: the send completes at
\* once when the buffer has room, and otherwise the goroutine blocks in it.
Submit(c) ==
    /\ proc[c].pc = "idle"
    /\ \A d \in Apps : d < c => proc[d].pc # "idle"
    /\ resCh' = [resCh EXCEPT ![c] = <<>>]
    /\ IF CanSend(jobCh)
          THEN /\ jobCh' = Append(jobCh, c)
               /\ enqOrder' = Append(enqOrder, c)
               /\ proc' = [proc EXCEPT ![c].pc = "recv"]
          ELSE /\ proc' = [proc EXCEPT ![c].pc = "send"]
               /\ UNCHANGED <<jobCh, enqOrder>>
    /\ UNCHANGED <<plat, cfg, cfgLoaded, Interval, started, idle, exec, asleep,
                   slept, startOrder, produced, execCount, writeCount,
                   readCount>>
    /\ UNCHANGED <<svars, cvars, hvars, xvars>>

\* A goroutine blocked in the send completes it once the buffer has room.
SendUnblock(c) ==
    /\ proc[c].pc = "send"
    /\ CanSend(jobCh)
    /\ jobCh' = Append(jobCh, c)
    /\ enqOrder' = Append(enqOrder, c)
    /\ proc' = [proc EXCEPT ![c].pc = "recv"]
    /\ UNCHANGED <<plat, cfg, cfgLoaded, Interval, started, idle, exec, asleep,
                   slept, resCh, startOrder, produced, execCount, writeCount,
                   readCount>>
    /\ UNCHANGED <<svars, cvars, hvars, xvars>>

\* res := <-ch; return res.v, res.e
Return(c) ==
    /\ proc[c].pc = "recv"
    /\ resCh[c] # <<>>
    /\ proc' = [proc EXCEPT ![c].pc = "done", ![c].ret = Head(resCh[c])]
    /\ resCh' = [resCh EXCEPT ![c] = Tail(@)]
    /\ readCount' = [readCount EXCEPT ![c] = @ + 1]
    /\ UNCHANGED <<plat, cfg, cfgLoaded, Interval, jobCh, started, idle, exec,
                   asleep, slept, enqOrder, startOrder, produced, execCount,
                   writeCount>>
    /\ UNCHANGED <<svars, cvars, hvars, xvars>>

(***************************************************************************)
(* waWorker / tgWorker.                                                    *)
(***************************************************************************)
\* `for job := range ch` receives a job; the QueueEnabled test that follows
\* picks the branch (rl) before job() is called.
WorkerPop ==
    /\ idle > 0
    /\ jobCh # <<>>
    /\ LET j == jobCh[PopIndex(jobCh)]
       IN  /\ exec' = exec \cup {[job |-> j, rl |-> cfg.QueueEnabled]}
           /\ startOrder' = Append(startOrder, j)
    /\ idle' = idle - 1
    /\ jobCh' = AfterPop(jobCh)
    /\ UNCHANGED <<plat, cfg, cfgLoaded, Interval, started, asleep, slept, proc,
                   resCh, enqOrder, produced, execCount, writeCount, readCount>>
    /\ UNCHANGED <<svars, cvars, hvars, xvars>>

\* The workers past job() when one more has run a job with result r: the
\* loop does not look at the result.
BackInLoopUnlessError(r, n) == IF r.e.isNil THEN n + 1 ELSE n
BackInLoop(r, n) == n + 1

\* job(): the body runs and sends its result on the ch it captured (the send
\* would block on a full ch); then time.Sleep(Interval) on the enabled branch.
WorkerRun(x) ==
    /\ x \in exec
    /\ LET j == x.job
           ch == JobResultCh(j)
       IN  /\ Len(resCh[ch]) < ResultChCap
           /\ \E r \in JobResults(j) :
                /\ produced' = [produced EXCEPT ![j] = r]
                /\ resCh' = [resCh EXCEPT ![ch] = Append(@, r)]
                /\ IF x.rl
                      THEN /\ asleep' = BackInLoop(r, asleep)
                           /\ slept' = Interval
                           /\ UNCHANGED idle
                      ELSE /\ idle' = BackInLoop(r, idle)
                           /\ UNCHANGED <<asleep, slept>>
           /\ execCount' = [execCount EXCEPT ![j] = @ + 1]
           /\ writeCount' = [writeCount EXCEPT ![ch] = @ + 1]
    /\ exec' = exec \ {x}
    /\ UNCHANGED <<plat, cfg, cfgLoaded, Interval, jobCh, started, proc,
                   enqOrder, startOrder, readCount>>
    /\ UNCHANGED <<svars, cvars, hvars, xvars>>

\* time.Sleep returns.
WorkerWake ==
    /\ asleep > 0
    /\ asleep' = asleep - 1
    /\ idle' = idle + 1
    /\ slept' = IF asleep = 1 THEN 0 ELSE slept
    /\ UNCHANGED <<plat, cfg, cfgLoaded, Interval, jobCh, started, exec, proc,
                   resCh, enqOrder, startOrder, produced, execCount, writeCount,
                   readCount>>
    /\ UNCHANGED <<svars, cvars, hvars, xvars>>

QueueNext ==
    \/ LoadConfig
    \/ StartWorkers
    \/ \E c \in Apps : Submit(c)
    \/ \E c \in Apps : SendUnblock(c)
    \/ \E c \in Apps : Return(c)
    \/ WorkerPop
    \/ \E x \in exec : WorkerRun(x)
    \/ WorkerWake

SpecQueue == QueueInit /\ [][QueueNext]_vars

(***************************************************************************)
(* The forum queue with submitters that stop waiting: a caller that races  *)
(* TgRun against its own timer gives the call up while it waits for the    *)
(* result, and nobody reads that call's ch any more.                       *)
(***************************************************************************)
Abandon(c) ==
    /\ proc[c].pc = "recv"
    /\ proc' = [proc EXCEPT ![c].pc = "gone"]
    /\ UNCHANGED <<plat, cfg, cfgLoaded, Interval, jobCh, started, idle, exec,
                   asleep, slept, resCh, enqOrder, startOrder, produced,
                   execCount, writeCount, readCount>>
    /\ UNCHANGED <<svars, cvars, hvars, xvars>>

\* StartWorkers is called once, at start-up.
StartWorkersOnce == started = 0 /\ StartWorkers

AbandonInit ==
    /\ QueueInit
    /\ plat = "tg"
    /\ cfgLoaded

AbandonNext ==
    \/ StartWorkersOnce
    \/ \E c \in Apps : Submit(c)
    \/ \E c \in Apps : SendUnblock(c)
    \/ \E c \in Apps : Return(c)
    \/ \E c \in Apps : Abandon(c)
    \/ WorkerPop
    \/ \E x \in exec : WorkerRun(x)
    \/ WorkerWake

SpecAbandon == AbandonInit /\ [][AbandonNext]_vars

(***************************************************************************)
(* The forum queue under fair scheduling: a goroutine that can take its    *)
(* next step takes it.  For the worker this includes returning from job()  *)
(* (every job body terminates) and from time.Sleep; for a submitter,       *)
(* completing a send once the buffer has room and reading its result.      *)
(* Nothing obliges the application to call StartWorkers or TgRun.          *)
(***************************************************************************)
LiveInit ==
    /\ QueueInit
    /\ cfgLoaded

LiveNext ==
    \/ StartWorkersOnce
    \/ \E c \in Apps : Submit(c)
    \/ \E c \in Apps : SendUnblock(c)
    \/ \E c \in Apps : Return(c)
    \/ WorkerPop
    \/ \E x \in exec : WorkerRun(x)
    \/ WorkerWake

Fairness ==
    /\ WF_vars(WorkerPop)
    /\ WF_vars(\E x \in exec : WorkerRun(x))
    /\ WF_vars(WorkerWake)
    /\ \A c \in Apps : WF_vars(SendUnblock(c))
    /\ \A c \in Apps : WF_vars(Return(c))

SpecLive == LiveInit /\ [][LiveNext]_vars /\ Fairness

(***************************************************************************)
(* The scheduler runs after start-up: the configuration is loaded (rate    *)
(* limiting off), the workers were started once, the forum queue is empty. *)
(* The store holds                                                         *)
(* any rows: pairing rows of the target group for the threads in P and of  *)
(* the other group for the threads in Q; MaxMsgs message rows for each     *)
(* thread in M of the target group and one for each thread in N of the     *)
(* other group.                                                            *)
(***************************************************************************)
PairRows(P, Q) ==
    {<<TargetChatID, t>> : t \in P} \cup {<<OtherChatID, t>> : t \in Q}
MsgRows(M, N) ==
    {<<TargetChatID, t, i>> : t \in M, i \in MsgIds}
        \cup {<<OtherChatID, t, 1>> : t \in N}

SchedStart ==
    /\ plat = "tg"
    /\ cfgLoaded = TRUE
    /\ cfg = ZeroCfg
    /\ Interval = 0
    /\ jobCh = <<>>
    /\ started = 1
    /\ idle = 1
    /\ exec = {}
    /\ asleep = 0
    /\ slept = 0
    /\ proc = [c \in Apps |-> [pc |-> "idle", ret |-> None]]
    /\ resCh = [c \in Jobs |-> <<>>]
    /\ enqOrder = <<>>
    /\ startOrder = <<>>
    /\ produced = [c \in Jobs |-> None]
    /\ execCount = [c \in Jobs |-> 0]
    /\ writeCount = [c \in Jobs |-> 0]
    /\ readCount = [c \in Jobs |-> 0]
    /\ botPresent \in BOOLEAN
    /\ dbPresent \in BOOLEAN
    /\ \E P \in SUBSET Threads, Q \in SUBSET {MaxThread} : pairs = PairRows(P, Q)
    /\ \E M \in SUBSET Threads, N \in SUBSET {MaxThread} : msgs = MsgRows(M, N)
    /\ tick = TickIdle
    /\ ClsQuiet
    /\ LegacyQuiet
    /\ OverlapOff

SchedInit == SchedStart /\ HistOff

(***************************************************************************)
(* cleanupDeletedTopics (package scheduler), one tick.                     *)
(***************************************************************************)
\* bot == nil: the tick returns at once.
TickNoBot ==
    /\ tick.pc = "wait"
    /\ ~botPresent
    /\ tick' = TickIdle
    /\ UNCHANGED <<qvars, botPresent, dbPresent, pairs, msgs, cvars, hvars, xvars>>

\* Where the tick goes after utils.WaSyncContacts() returned: its error is
\* only logged.
AfterSyncReturnsOnError(syncOk) == IF syncOk THEN "fetch" ELSE "wait"
AfterSync(syncOk) == "fetch"

\* bot != nil; utils.WaSyncContacts().
TickStart ==
    /\ tick.pc = "wait"
    /\ botPresent
    /\ ov.on => ov.started < MaxTicks
    /\ \E syncOk \in BOOLEAN :
          tick' = [TickIdle EXCEPT
                      !.pc = AfterSync(syncOk),
                      !.sync = IF syncOk THEN "ok" ELSE "err"]
    /\ ov' = IF ov.on THEN [ov EXCEPT !.started = @ + 1] ELSE ov
    /\ UNCHANGED <<qvars, botPresent, dbPresent, pairs, msgs, cvars, hvars,
                   legacy, other, world>>

\* database.ChatThreadGetAllPairs: on an error the tick returns, otherwise
\* the rows of the target group are the tick's snapshot.
TickFetch ==
    /\ tick.pc = "fetch"
    /\ \E fetchOk \in StoreOutcomes :
          IF fetchOk /\ dbPresent
             THEN /\ tick' = [TickIdle EXCEPT
                                 !.pc = "loop",
                                 !.todo = ChatThreadGetAllPairs(pairs, TargetChatID)]
                  /\ ov' = ov
             ELSE /\ tick' = TickIdle
                  /\ ov' = IF ov.on THEN [ov EXCEPT !.ended = @ + 1] ELSE ov
    /\ UNCHANGED <<qvars, botPresent, dbPresent, pairs, msgs, cvars, hvars,
                   legacy, other, world>>

\* The tick has gone through its snapshot and returns.
TickEnd ==
    /\ tick.pc = "loop"
    /\ tick.todo = {}
    /\ tick' = TickIdle
    /\ ov' = IF ov.on THEN [ov EXCEPT !.ended = @ + 1] ELSE ov
    /\ UNCHANGED <<qvars, botPresent, dbPresent, pairs, msgs, cvars, hvars,
                   legacy, other, world>>

\* for _, pair := range pairs: the next row; the General topic is skipped,
\* any other row is to be probed.
TickNextRow ==
    /\ tick.pc = "loop"
    /\ \E row \in tick.todo :
          tick' = [tick EXCEPT
                      !.todo = @ \ {row},
                      !.cur = row,
                      !.probeErr = NilErr,
                      !.delMsgs = "-",
                      !.delPair = "-",
                      !.clean = FALSE,
                      !.act = IF SkipThread(row[2]) THEN "skip" ELSE "-",
                      !.pc = IF SkipThread(row[2]) THEN "loop" ELSE "probe"]
    /\ UNCHANGED <<qvars, botPresent, dbPresent, pairs, msgs, cvars, hvars, xvars>>

\* queue.TgReopenForumTopic -> TgRun: a fresh ch, and the job is sent on
\* tgJobCh (the send waits for room in the buffer).  The histories keep the
\* tick's current call only.
TickProbeSend ==
    /\ tick.pc = "probe"
    /\ CanSend(jobCh)
    /\ jobCh' = Append(jobCh, TickJob)
    /\ enqOrder' = Append(SelectSeq(enqOrder, LAMBDA j : j # TickJob), TickJob)
    /\ startOrder' = SelectSeq(startOrder, LAMBDA j : j # TickJob)
    /\ resCh' = [resCh EXCEPT ![TickJob] = <<>>]
    /\ produced' = [produced EXCEPT ![TickJob] = None]
    /\ execCount' = [execCount EXCEPT ![TickJob] = 0]
    /\ writeCount' = [writeCount EXCEPT ![TickJob] = 0]
    /\ readCount' = [readCount EXCEPT ![TickJob] = 0]
    /\ tick' = [tick EXCEPT !.pc = "probe_recv"]
    /\ UNCHANGED <<plat, cfg, cfgLoaded, Interval, started, idle, exec, asleep,
                   slept, proc>>
    /\ UNCHANGED <<botPresent, dbPresent, pairs, msgs, cvars, hvars, xvars>>

\* TgRun returns the probe's error; a topic that is alive is left alone
\* (with a name resynchronisation when the error says TOPIC_NOT_MODIFIED),
\* and the row of a deleted topic goes on to the two deletes.
TickProbeReturn ==
    /\ tick.pc = "probe_recv"
    /\ resCh[TickJob] # <<>>
    /\ LET e == Head(resCh[TickJob]).e
       IN  tick' =
              IF TopicAlive(e)
                 THEN IF NeedsResync(e)
                         THEN [tick EXCEPT !.pc = "loop", !.probeErr = e,
                                           !.act = "resync"]
                         ELSE [tick EXCEPT !.pc = "loop", !.probeErr = e,
                                           !.act = "alive"]
                 ELSE [tick EXCEPT !.pc = "del_msgs", !.probeErr = e,
                                   !.act = "cascade",
                                   !.clean = (Orphans(msgs, pairs) = {})]
    /\ resCh' = [resCh EXCEPT ![TickJob] = Tail(@)]
    /\ readCount' = [readCount EXCEPT ![TickJob] = @ + 1]
    /\ UNCHANGED <<plat, cfg, cfgLoaded, Interval, jobCh, started, idle, exec,
                   asleep, slept, proc, enqOrder, startOrder, produced,
                   execCount, writeCount>>
    /\ UNCHANGED <<botPresent, dbPresent, pairs, msgs, cvars, hvars, xvars>>

\* Where the tick goes after MsgIdDeletePairsByThreadId returned: its error
\* is logged and the pairing row's delete follows in either case.
AfterMsgDeleteSkipsOnError(ok) == IF ok THEN "del_pair" ELSE "loop"
AfterMsgDelete(ok) == "del_pair"

\* database.MsgIdDeletePairsByThreadId(tgChatId, threadId); an error is
\* logged and the tick goes on.
TickDeleteMsgs ==
    /\ tick.pc = "del_msgs"
    /\ \E ok \in StoreOutcomes :
          /\ msgs' = IF ok
                        THEN MsgIdDeletePairsByThreadId(msgs, tick.cur[1], tick.cur[2])
                        ELSE msgs
          /\ tick' = [tick EXCEPT !.pc = AfterMsgDelete(ok),
                                  !.delMsgs = IF ok THEN "ok" ELSE "err"]
    /\ sweep' = [sweep EXCEPT !.log = <<>>]
    /\ UNCHANGED <<qvars, botPresent, dbPresent, pairs, cvars, xvars>>

\* database.ChatThreadDropPairByTg(tgChatId, threadId); an error is logged
\* and the loop goes on to the next row.
TickDropPair ==
    /\ tick.pc = "del_pair"
    /\ \E ok \in StoreOutcomes :
          /\ pairs' = IF ok
                         THEN ChatThreadDropPairByTg(pairs, tick.cur[1], tick.cur[2])
                         ELSE pairs
          /\ tick' = [tick EXCEPT !.pc = "loop",
                                  !.delPair = IF ok THEN "ok" ELSE "err"]
    /\ sweep' = [sweep EXCEPT !.log = <<>>]
    /\ UNCHANGED <<qvars, botPresent, dbPresent, msgs, cvars, xvars>>

(***************************************************************************)
(* CleanUpMsg: the orphan sweep, one SQL statement.                        *)
(***************************************************************************)
\* db == nil: nothing is done.  Otherwise the statement is executed; when it
\* fails nothing is deleted, and when it succeeds RowsAffected rows are.
CleanUpMsg ==
    /\ dbPresent
    /\ sweep.on => Len(sweep.log) < MaxSweeps
    /\ \E ok \in BOOLEAN :
          /\ msgs' = IF ok THEN SweepResult(msgs, pairs) ELSE msgs
          /\ sweep' =
                IF sweep.on
                   THEN [sweep EXCEPT !.log = Append(@,
                           [ok |-> ok,
                            rows |-> IF ok
                                        THEN Cardinality(msgs \ SweepResult(msgs, pairs))
                                        ELSE 0])]
                   ELSE sweep
    /\ UNCHANGED <<qvars, botPresent, dbPresent, pairs, tick, cvars, xvars>>

SchedNext ==
    \/ TickNoBot
    \/ TickStart
    \/ TickFetch
    \/ TickEnd
    \/ TickNextRow
    \/ TickProbeSend
    \/ TickProbeReturn
    \/ TickDeleteMsgs
    \/ TickDropPair
    \/ CleanUpMsg
    \/ WorkerPop
    \/ \E x \in exec : WorkerRun(x)

SpecSched == SchedInit /\ [][SchedNext]_vars

(***************************************************************************)
(* The scheduler and the orphan sweep with the history of the sweeps kept. *)
(***************************************************************************)
RepairInit == SchedStart /\ sweep = [on |-> TRUE, log |-> <<>>]

SpecRepair == RepairInit /\ [][SchedNext]_vars

(***************************************************************************)
(* Two goroutines running cleanupDeletedTopics of package scheduler over   *)
(* the same store.  The actions of a tick are those above, taken by the    *)
(* goroutine in `tick`; TickSwitch hands the next step to the other one,   *)
(* whose probe job is TickJob2 while it is not the one stepping.           *)
(***************************************************************************)
SwapJob(j) ==
    IF j = TickJob THEN TickJob2 ELSE IF j = TickJob2 THEN TickJob ELSE j

TickSwitch ==
    /\ tick' = other
    /\ other' = tick
    /\ jobCh' = [i \in DOMAIN jobCh |-> SwapJob(jobCh[i])]
    /\ exec' = {[job |-> SwapJob(x.job), rl |-> x.rl] : x \in exec}
    /\ enqOrder' = [i \in DOMAIN enqOrder |-> SwapJob(enqOrder[i])]
    /\ startOrder' = [i \in DOMAIN startOrder |-> SwapJob(startOrder[i])]
    /\ resCh' = [j \in Jobs |-> resCh[SwapJob(j)]]
    /\ produced' = [j \in Jobs |-> produced[SwapJob(j)]]
    /\ execCount' = [j \in Jobs |-> execCount[SwapJob(j)]]
    /\ writeCount' = [j \in Jobs |-> writeCount[SwapJob(j)]]
    /\ readCount' = [j \in Jobs |-> readCount[SwapJob(j)]]
    /\ ov' = [ov EXCEPT !.overlapped =
                  @ \/ (/\ tick.pc \in {"del_msgs", "del_pair"}
                        /\ other.pc \in {"del_msgs", "del_pair"}
                        /\ tick.cur = other.cur)]
    /\ UNCHANGED <<plat, cfg, cfgLoaded, Interval, started, idle, asleep, slept,
                   proc>>
    /\ UNCHANGED <<botPresent, dbPresent, pairs, msgs, cvars, hvars, legacy,
                   world>>

\* What probes return in a world where each topic gives one answer.
\* The topics both runs find paired: the General topic and a forum topic.
OverlapThreads == {1, MaxThread}

StableWorlds ==
    {[stable |-> TRUE, outcome |-> f, reliable |-> r] :
        f \in {g \in [Threads -> ProbeErrs] :
                  \A t \in Threads : t \notin OverlapThreads \/ t <= 1 => g[t] = NilErr},
        r \in BOOLEAN}

OverlapInit ==
    /\ plat = "tg"
    /\ cfgLoaded = TRUE
    /\ cfg = ZeroCfg
    /\ Interval = 0
    /\ jobCh = <<>>
    /\ started = 1
    /\ idle = 1
    /\ exec = {}
    /\ asleep = 0
    /\ slept = 0
    /\ proc = [c \in Apps |-> [pc |-> "idle", ret |-> None]]
    /\ resCh = [c \in Jobs |-> <<>>]
    /\ enqOrder = <<>>
    /\ startOrder = <<>>
    /\ produced = [c \in Jobs |-> None]
    /\ execCount = [c \in Jobs |-> 0]
    /\ writeCount = [c \in Jobs |-> 0]
    /\ readCount = [c \in Jobs |-> 0]
    /\ botPresent = TRUE
    /\ dbPresent = TRUE
    /\ pairs = PairRows(OverlapThreads, {MaxThread})
    /\ msgs = MsgRows(OverlapThreads, {MaxThread})
    /\ tick = TickIdle
    /\ other = TickIdle
    /\ world \in StableWorlds \cup {AnyWorld}
    /\ ov = [on |-> TRUE, orig |-> [pairs |-> pairs, msgs |-> msgs],
             started |-> 0, ended |-> 0, overlapped |-> FALSE]
    /\ legacy = LegacyIdle
    /\ ClsQuiet
    /\ HistOff

OverlapNext ==
    \/ TickStart
    \/ TickFetch
    \/ TickEnd
    \/ TickNextRow
    \/ TickProbeSend
    \/ TickProbeReturn
    \/ TickDeleteMsgs
    \/ TickDropPair
    \/ TickSwitch
    \/ WorkerPop
    \/ \E x \in exec : WorkerRun(x)

SpecOverlap == OverlapInit /\ [][OverlapNext]_vars

(***************************************************************************)
(* cleanupDeletedTopics of package utils, one tick.  It works on the same  *)
(* store with the same bot, and calls bot.ReopenForumTopic itself.         *)
(***************************************************************************)
\* bot != nil; database.ChatThreadGetAllPairs: on an error the tick returns,
\* otherwise the rows of the target group are the tick's snapshot.
LegacyStart ==
    /\ legacy.pc = "wait"
    /\ botPresent
    /\ \E fetchOk \in BOOLEAN :
          IF fetchOk /\ dbPresent
             THEN legacy' = [LegacyIdle EXCEPT
                                !.pc = "loop",
                                !.todo = ChatThreadGetAllPairs(pairs, TargetChatID)]
             ELSE legacy' = [LegacyIdle EXCEPT !.pc = "wait"]
    /\ UNCHANGED <<qvars, svars, cvars, hvars, other, world, ov>>

\* The tick has gone through its snapshot and returns.
LegacyEnd ==
    /\ legacy.pc = "loop"
    /\ legacy.todo = {}
    /\ legacy' = [LegacyIdle EXCEPT !.pc = "wait"]
    /\ UNCHANGED <<qvars, svars, cvars, hvars, other, world, ov>>

\* for _, pair := range pairs: the General topic is skipped; for any other
\* row the goroutine enters bot.ReopenForumTopic(tgChatId, threadId, nil).
LegacyNextRow ==
    /\ legacy.pc = "loop"
    /\ \E row \in legacy.todo :
          legacy' = [legacy EXCEPT
                        !.todo = @ \ {row},
                        !.cur = row,
                        !.probeErr = NilErr,
                        !.pc = IF SkipThread(row[2]) THEN "loop" ELSE "probing"]
    /\ UNCHANGED <<qvars, svars, cvars, hvars, other, world, ov>>

\* bot.ReopenForumTopic returns; a topic that is alive is left alone and the
\* row of a deleted topic goes on to the two deletes.
LegacyProbeReturn ==
    /\ legacy.pc = "probing"
    /\ \E e \in ProbeErrs :
          legacy' = [legacy EXCEPT
                        !.probeErr = e,
                        !.pc = IF e.isNil \/ ~isTopicNotFoundUtils(e)
                                  THEN "loop" ELSE "del_msgs"]
    /\ UNCHANGED <<qvars, svars, cvars, hvars, other, world, ov>>

\* database.MsgIdDeletePairsByThreadId; an error is logged.
LegacyDeleteMsgs ==
    /\ legacy.pc = "del_msgs"
    /\ \E ok \in BOOLEAN :
          msgs' = IF ok
                     THEN MsgIdDeletePairsByThreadId(msgs, legacy.cur[1], legacy.cur[2])
                     ELSE msgs
    /\ legacy' = [legacy EXCEPT !.pc = "del_pair"]
    /\ sweep' = [sweep EXCEPT !.log = <<>>]
    /\ UNCHANGED <<qvars, botPresent, dbPresent, pairs, tick, cvars, other, world, ov>>

\* database.ChatThreadDropPairByTg; an error is logged.
LegacyDropPair ==
    /\ legacy.pc = "del_pair"
    /\ \E ok \in BOOLEAN :
          pairs' = IF ok
                      THEN ChatThreadDropPairByTg(pairs, legacy.cur[1], legacy.cur[2])
                      ELSE pairs
    /\ legacy' = [legacy EXCEPT !.pc = "loop"]
    /\ sweep' = [sweep EXCEPT !.log = <<>>]
    /\ UNCHANGED <<qvars, botPresent, dbPresent, msgs, tick, cvars, other, world, ov>>

(***************************************************************************)
(* The forum queue in use by the application while both packages'          *)
(* schedulers tick over a store of one topic.                              *)
(***************************************************************************)
\* The goroutines of the application that send while the schedulers tick.
ProbeApps == 1..MaxProbeApps

ProbeInit ==
    /\ plat = "tg"
    /\ cfgLoaded = TRUE
    /\ cfg = ZeroCfg
    /\ Interval = 0
    /\ jobCh = <<>>
    /\ started = 1
    /\ idle = 1
    /\ exec = {}
    /\ asleep = 0
    /\ slept = 0
    /\ proc = [c \in Apps |-> [pc |-> "idle", ret |-> None]]
    /\ resCh = [c \in Jobs |-> <<>>]
    /\ enqOrder = <<>>
    /\ startOrder = <<>>
    /\ produced = [c \in Jobs |-> None]
    /\ execCount = [c \in Jobs |-> 0]
    /\ writeCount = [c \in Jobs |-> 0]
    /\ readCount = [c \in Jobs |-> 0]
    /\ botPresent = TRUE
    /\ dbPresent = TRUE
    /\ pairs = PairRows({MaxThread}, {})
    /\ msgs = MsgRows({MaxThread}, {})
    /\ tick = TickIdle
    /\ legacy = [LegacyIdle EXCEPT !.pc = "wait"]
    /\ ClsQuiet
    /\ HistOff
    /\ OverlapOff

ProbeNext ==
    \/ \E c \in ProbeApps : Submit(c)
    \/ \E c \in ProbeApps : SendUnblock(c)
    \/ \E c \in ProbeApps : Return(c)
    \/ WorkerPop
    \/ \E x \in exec : WorkerRun(x)
    \/ TickStart
    \/ TickFetch
    \/ TickEnd
    \/ TickNextRow
    \/ TickProbeSend
    \/ TickProbeReturn
    \/ TickDeleteMsgs
    \/ TickDropPair
    \/ LegacyStart
    \/ LegacyEnd
    \/ LegacyNextRow
    \/ LegacyProbeReturn
    \/ LegacyDeleteMsgs
    \/ LegacyDropPair

SpecProbe == ProbeInit /\ [][ProbeNext]_vars


(***************************************************************************)
(* The classifiers on their own: an error, nil or with a text built of at  *)
(* most MaxFrags pieces, is given to each package's classification.        *)
(***************************************************************************)
Fragments ==
    {TxtBadRequest, TxtTopicNotFound, TxtTopicIdInvalid,
     TxtMessageThreadInvalid, TxtTopicNotModified, TxtTopicIdInvalidLower,
     TxtTopicNotModifiedLower, TxtThreadInvalidMixed, TxtTopicNot, TxtFound,
     TxtRetryAfter}

RECURSIVE Texts(_)
Texts(n) ==
    IF n = 0 THEN {<<>>}
    ELSE Texts(n - 1) \cup {t \o f : t \in Texts(n - 1), f \in Fragments}

QueueQuiet ==
    /\ plat = "tg"
    /\ cfgLoaded = FALSE
    /\ cfg = ZeroCfg
    /\ Interval = 0
    /\ jobCh = <<>>
    /\ started = 0
    /\ idle = 0
    /\ exec = {}
    /\ asleep = 0
    /\ slept = 0
    /\ proc = [c \in Apps |-> [pc |-> "idle", ret |-> None]]
    /\ resCh = [c \in Jobs |-> <<>>]
    /\ enqOrder = <<>>
    /\ startOrder = <<>>
    /\ produced = [c \in Jobs |-> None]
    /\ execCount = [c \in Jobs |-> 0]
    /\ writeCount = [c \in Jobs |-> 0]
    /\ readCount = [c \in Jobs |-> 0]

ClassifyInit ==
    /\ QueueQuiet
    /\ SchedQuiet
    /\ clsErr \in {NilErr} \cup {Err(t) : t \in Texts(MaxFrags)}
    /\ clsOut = [k \in {"scheduler", "utils"} |-> "-"]
    /\ HistOff
    /\ LegacyQuiet
    /\ OverlapOff

\* cleanupDeletedTopics of package scheduler classifies the error.
ClassifyBySchedulerPkg ==
    /\ clsOut["scheduler"] = "-"
    /\ clsOut' = [clsOut EXCEPT !["scheduler"] = ClassifyScheduler(clsErr)]
    /\ UNCHANGED <<qvars, svars, clsErr, hvars, xvars>>

\* cleanupDeletedTopics of package utils classifies the error.
ClassifyByUtilsPkg ==
    /\ clsOut["utils"] = "-"
    /\ clsOut' = [clsOut EXCEPT !["utils"] = ClassifyUtils(clsErr)]
    /\ UNCHANGED <<qvars, svars, clsErr, hvars, xvars>>

ClassifyNext == ClassifyBySchedulerPkg \/ ClassifyByUtilsPkg

SpecClassify == ClassifyInit /\ [][ClassifyNext]_vars

(***************************************************************************)
(* The orphan sweep on its own: CleanUpMsg runs, with its history kept,    *)
(* over any store while nothing else touches the store.                    *)
(***************************************************************************)
SweepInit ==
    /\ QueueQuiet
    /\ ClsQuiet
    /\ botPresent = FALSE
    /\ dbPresent \in BOOLEAN
    /\ \E P \in SUBSET Threads, Q \in SUBSET {MaxThread} : pairs = PairRows(P, Q)
    /\ \E M \in SUBSET Threads, N \in SUBSET {MaxThread} : msgs = MsgRows(M, N)
    /\ tick = TickIdle
    /\ sweep = [on |-> TRUE, log |-> <<>>]
    /\ LegacyQuiet
    /\ OverlapOff

SweepNext == CleanUpMsg

SpecSweep == SweepInit /\ [][SweepNext]_vars

(***************************************************************************)
(* Properties of the queue.                                                *)
(***************************************************************************)
JobsInCh(c) == Cardinality({i \in DOMAIN jobCh : jobCh[i] = c})
JobsInExec(c) == Cardinality({x \in exec : x.job = c})

\* C1: with the worker started exactly once, jobs begin execution in the
\* order in which their sends on the job channel completed (FIFO), and at
\* most one job of the queue is executing at any instant.
C1_FifoAndSerial ==
    started = 1 =>
        /\ IsPrefix(startOrder, enqOrder)
        /\ Cardinality(exec) <= 1

\* C1 witness: one worker, three jobs begun, one of them executing, and the
\* enqueue order differs from the order in which the callers entered the call.
C1_Witness ==
    /\ started = 1
    /\ Len(startOrder) >= 3
    /\ exec # {}
    /\ \E i \in 1..(Len(startOrder) - 1) : startOrder[i] > startOrder[i + 1]

\* C2: a caller that has returned holds exactly the pair its own job body
\* produced, and that body ran once (no retry, no other caller's result).
C2_ResultVerbatim ==
    \A c \in Apps :
        proc[c].pc = "done" =>
            /\ proc[c].ret = produced[c]
            /\ produced[c] \in Results
            /\ execCount[c] = 1

\* C2 witness: two callers have returned, one with (42, nil) and one with an
\* error.
C2_Witness ==
    \E c, d \in Apps :
        /\ proc[c].pc = "done" /\ proc[c].ret = [v |-> 42, e |-> NilErr]
        /\ proc[d].pc = "done" /\ ~proc[d].ret.e.isNil

\* C3 as stated: with one worker running, no more than QueueSize pending
\* jobs (accepted and not yet finished) are ever accepted without blocking.
C3_Original ==
    started = 1 => Len(jobCh) + Cardinality(exec) <= QueueSize

C3_Inv ==
    /\ Len(jobCh) <= QueueSize
    /\ started = 1 => Len(jobCh) + Cardinality(exec) <= QueueSize + 1
    /\ \A c \in Apps : proc[c].pc = "send" => JobsInCh(c) = 0
C3_Step ==
    \A c \in Apps :
        /\ (proc[c].pc = "idle" /\ proc'[c].pc = "send") =>
                (Len(jobCh) = QueueSize /\ jobCh' = jobCh)
        /\ (proc[c].pc = "idle" /\ proc'[c].pc = "recv") =>
                (Len(jobCh) < QueueSize /\ jobCh' = Append(jobCh, c))
        /\ (proc[c].pc = "send" /\ proc'[c].pc = "recv") =>
                (Len(jobCh) < QueueSize /\ jobCh' = Append(jobCh, c))
\* C3 amended: the buffer never holds more than QueueSize jobs; a submission
\* is enqueued without blocking whenever fewer than QueueSize jobs wait in
\* the buffer, blocks exactly when QueueSize jobs wait in it, and a blocked
\* submission is enqueued only once the buffer has room again.  With one
\* worker, QueueSize + 1 pending jobs are accepted (one executing).
C3_Amended == []C3_Inv /\ [][C3_Step]_vars

\* C3 witness: one worker executing a job, the buffer full, a caller blocked.
C3_Witness ==
    /\ started = 1
    /\ Cardinality(exec) = 1
    /\ Len(jobCh) = QueueSize
    /\ \E c \in Apps : proc[c].pc = "send"

\* C4: every enqueued job is in the buffer, executing, or executed, exactly
\* once in all; its body writes one value to the call's result channel and
\* the submitter reads one value.
C4_ExactlyOnce ==
    \A c \in Apps :
        /\ execCount[c] <= 1 /\ writeCount[c] = execCount[c]
        /\ readCount[c] <= writeCount[c]
        /\ Len(resCh[c]) = writeCount[c] - readCount[c]
        /\ proc[c].pc \in {"idle", "send"} =>
                JobsInCh(c) + JobsInExec(c) + execCount[c] = 0
        /\ proc[c].pc \in {"recv", "done"} =>
                JobsInCh(c) + JobsInExec(c) + execCount[c] = 1
        /\ proc[c].pc = "done" => execCount[c] = 1 /\ readCount[c] = 1
        /\ proc[c].pc = "recv" => readCount[c] = 0

\* C4 witness: the buffer is full with a caller blocked behind it, while one
\* caller has already read its result.
C4_Witness ==
    /\ Len(jobCh) = QueueSize
    /\ \E c \in Apps : proc[c].pc = "send"
    /\ \E c \in Apps : proc[c].pc = "done" /\ readCount[c] = 1

\* C5 as stated: whenever a worker goes to sleep after a job, it sleeps the
\* QueueIntervalMs of the loaded configuration.
C5_SleepsConfiguredInterval ==
    [][asleep' = asleep + 1 => slept' = cfg.QueueIntervalMs]_vars

(***************************************************************************)
(* Properties of the scheduler.                                            *)
(***************************************************************************)
NotFoundSignatures == {TxtTopicNotFound, TxtTopicIdInvalid, TxtMessageThreadInvalid}

\* The error's text contains, case-insensitively, a not-found signature.
NotFoundText(e) ==
    ~e.isNil /\ \E sig \in NotFoundSignatures : Contains(ToUpper(e.msg), sig)
\* The error's text contains, case-insensitively, TOPIC_NOT_MODIFIED.
NotModifiedText(e) ==
    ~e.isNil /\ Contains(ToUpper(e.msg), TxtTopicNotModified)

\* The tick has finished with its current row.
RowDone == tick.pc = "loop" /\ tick.cur # NoRow
\* The tick has issued a probe for its current row, or a delete.
RowActive == tick.pc \in {"probe", "probe_recv", "del_msgs", "del_pair"}
\* The message rows of the tick's current row.
CurMsgs ==
    IF tick.cur = NoRow THEN {} ELSE MsgsOf(msgs, tick.cur[1], tick.cur[2])
\* The rows a tick step removes.
RemovedPairs == pairs \ pairs'
RemovedMsgs == msgs \ msgs'

C6_Inv ==
    /\ RowActive => tick.cur[2] > 1
    /\ (TickJob \in {x.job : x \in exec} \/ JobsInCh(TickJob) > 0) => tick.cur[2] > 1
    /\ (RowDone /\ tick.cur[2] <= 1) =>
            (tick.act = "skip" /\ tick.delMsgs = "-" /\ tick.delPair = "-")
C6_Step ==
    tick' # tick =>
        /\ \A p \in RemovedPairs : p[2] > 1
        /\ \A m \in RemovedMsgs : m[2] > 1
\* C6: a tick never issues a probe for a row whose thread id is 0 or 1, and
\* no step of a tick removes a pairing row or a message row of such a thread.
C6_GeneralTopicUntouched == []C6_Inv /\ [][C6_Step]_vars

\* C6 witness: a cascade for another row is under way in a tick that has
\* already passed a General-topic row, which is still there with its messages.
C6_Witness ==
    /\ tick.pc = "del_pair" /\ tick.delMsgs = "ok"
    /\ \E t \in Threads :
          /\ t <= 1
          /\ <<TargetChatID, t>> \in pairs
          /\ <<TargetChatID, t>> \notin tick.todo
          /\ MsgsOf(msgs, TargetChatID, t) # {}

C7_Given ==
    /\ RowDone
    /\ ~tick.probeErr.isNil
    /\ Contains(tick.probeErr.msg, TxtTopicNotFound)
\* C7 as stated: after the cascade of a row whose probe said TOPIC_NOT_FOUND
\* and whose deletes succeeded, the row and its messages are gone and an
\* orphan sweep would delete no row.
C7_Original ==
    (C7_Given /\ tick.delMsgs = "ok" /\ tick.delPair = "ok") =>
        /\ CurMsgs = {}
        /\ tick.cur \notin pairs
        /\ SweepVictims(msgs, pairs) = {}

C7_Inv ==
    /\ C7_Given =>
        /\ tick.act = "cascade" /\ tick.delMsgs # "-" /\ tick.delPair # "-"
        /\ (tick.delMsgs = "ok" /\ tick.delPair = "ok") =>
                /\ CurMsgs = {}
                /\ tick.cur \notin pairs
                /\ tick.clean => SweepVictims(msgs, pairs) = {}
    /\ tick.pc = "del_msgs" => (tick.delMsgs = "-" /\ tick.delPair = "-")
    /\ tick.pc = "del_pair" =>
        /\ tick.delMsgs # "-" /\ tick.delPair = "-"
        /\ tick.delMsgs = "ok" => CurMsgs = {}
C7_Step ==
    tick' # tick =>
        /\ RemovedPairs \subseteq {tick.cur}
        /\ RemovedMsgs \subseteq CurMsgs
        /\ RemovedMsgs # {} => (tick.pc = "del_msgs" /\ pairs' = pairs)
        /\ RemovedPairs # {} => (tick.pc = "del_pair" /\ msgs' = msgs)
\* C7 amended: for a row whose probe error contains TOPIC_NOT_FOUND the tick
\* attempts both deletes, the message rows first and the pairing row second;
\* when both succeed, no message row of that (tgChatId, tgThreadId) and no
\* pairing row of it is left, no row of another thread is removed, and an
\* orphan sweep then deletes no row provided the store held no orphaned
\* message row when the cascade began.
C7_Cascade == []C7_Inv /\ [][C7_Step]_vars

\* C7 witness: a TOPIC_NOT_FOUND row whose two deletes succeeded and removed
\* rows, in a store that held no orphans, while rows of other threads remain.
C7_Witness ==
    /\ C7_Given /\ tick.delMsgs = "ok" /\ tick.delPair = "ok" /\ tick.clean
    /\ msgs # {} /\ pairs # {}
    /\ \E m \in msgs : m[1] = OtherChatID /\ m[2] = tick.cur[2]

C8_Inv ==
    /\ tick.pc \in {"del_msgs", "del_pair"} => NotFoundText(tick.probeErr)
    /\ (RowDone /\ ~NotFoundText(tick.probeErr)) =>
            (tick.delMsgs = "-" /\ tick.delPair = "-" /\ tick.act # "cascade")
C8_Step ==
    (tick' # tick /\ (pairs' # pairs \/ msgs' # msgs)) =>
        /\ NotFoundText(tick.probeErr)
        /\ RemovedPairs \subseteq {tick.cur}
        /\ RemovedMsgs \subseteq CurMsgs
\* C8: a tick issues its deletes, and removes rows, only for the row whose
\* probe in this tick returned an error containing (case-insensitively)
\* TOPIC_NOT_FOUND, TOPIC_ID_INVALID or MESSAGE_THREAD_INVALID; after a probe
\* with no error or any other error no delete is issued for the row.
C8_DeleteOnlyOnNotFound == []C8_Inv /\ [][C8_Step]_vars

\* C8 witness: a probe returned an error of no known signature and the row
\* and its messages are still in the store.
C8_Witness ==
    /\ RowDone /\ tick.act = "alive"
    /\ ~tick.probeErr.isNil
    /\ tick.cur \in pairs
    /\ CurMsgs # {}

\* C9: for a probed row, an error containing TOPIC_NOT_MODIFIED (and no
\* not-found signature) triggers the resynchronisation and no delete, and
\* the row stays; no error, or an error of no known signature, triggers
\* neither a resynchronisation nor a delete.
C9_ResyncOnNotModified ==
    (RowDone /\ tick.act # "skip") =>
        /\ (~tick.probeErr.isNil
            /\ Contains(tick.probeErr.msg, TxtTopicNotModified)
            /\ ~NotFoundText(tick.probeErr)) =>
                /\ tick.act = "resync"
                /\ tick.delMsgs = "-" /\ tick.delPair = "-"
                /\ tick.cur \in pairs
        /\ (tick.probeErr.isNil
            \/ (~NotFoundText(tick.probeErr) /\ ~NotModifiedText(tick.probeErr))) =>
                /\ tick.act = "alive"
                /\ tick.delMsgs = "-" /\ tick.delPair = "-"

\* C9 witness: the probe said TOPIC_NOT_MODIFIED, the resynchronisation was
\* triggered and the row's messages are still there.
C9_Witness ==
    /\ RowDone /\ tick.act = "resync"
    /\ Contains(tick.probeErr.msg, TxtTopicNotModified)
    /\ CurMsgs # {}

(***************************************************************************)
(* Properties of the classifiers.                                          *)
(***************************************************************************)
\* The three-way classification of an error.
Classification(e) ==
    IF e.isNil THEN "Exists"
    ELSE IF NotFoundText(e) THEN "NotFound"
    ELSE IF NotModifiedText(e) THEN "Unchanged"
    ELSE "Exists"

\* C10 as stated: what each package's scheduler makes of an error is the
\* three-way classification of that error.
C10_ClassifiersAgree ==
    \A k \in DOMAIN clsOut : clsOut[k] # "-" => clsOut[k] = Classification(clsErr)

(***************************************************************************)
(* Properties of the orphan sweep.                                         *)
(***************************************************************************)
\* This step is a run of CleanUpMsg, entered in the history.
SweepRan == sweep.on /\ Len(sweep'.log) = Len(sweep.log) + 1
\* ... and the statement succeeded.
SweepSucceeded == SweepRan /\ sweep'.log[Len(sweep'.log)].ok

\* C11 as stated: a successful run of CleanUpMsg deletes exactly the message
\* rows whose (tgChatId, tgThreadId) has no pairing row, also in a store
\* where two groups use the same thread id.
C11_SweepIsAntiJoin ==
    [][SweepSucceeded => msgs' = msgs \ Orphans(msgs, pairs)]_vars

\* An earlier run in the history succeeded.
SweptBefore(i) == \E k \in 1..(i - 1) : sweep.log[k].ok
C12_Inv ==
    \A i \in 1..Len(sweep.log) :
        (sweep.log[i].ok /\ SweptBefore(i)) => sweep.log[i].rows = 0
C12_Step ==
    (SweepRan /\ SweptBefore(Len(sweep.log) + 1)) => (msgs' = msgs /\ pairs' = pairs)
\* C12: of the runs of CleanUpMsg with no other change of the store between
\* them, only the first successful one deletes rows: every later run reports
\* zero rows and leaves the store as it is.
C12_SweepIdempotent == []C12_Inv /\ [][C12_Step]_vars

\* C12 witness: two successful runs in a row, the first of which deleted rows.
C12_Witness ==
    /\ Len(sweep.log) = 2
    /\ sweep.log[1].ok /\ sweep.log[1].rows > 0
    /\ sweep.log[2].ok /\ sweep.log[2].rows = 0
    /\ msgs # {}

(***************************************************************************)
(* Properties of the scheduler, continued.                                 *)
(***************************************************************************)
C13_Inv ==
    /\ (RowDone /\ tick.act = "cascade") =>
            (tick.delMsgs # "-" /\ tick.delPair # "-")
    /\ (RowDone /\ tick.delMsgs = "ok") => CurMsgs = {}
C13_Step ==
    /\ (tick' # tick /\ tick.pc = "del_msgs") =>
            (tick'.pc = "del_pair" /\ tick'.todo = tick.todo /\ tick'.cur = tick.cur)
    /\ (tick' # tick /\ tick.pc = "del_pair") =>
            (tick'.pc = "loop" /\ tick'.todo = tick.todo /\ msgs' = msgs)
    /\ (tick.pc \notin {"wait", "fetch"} /\ tick'.pc = "wait") =>
            (tick.pc = "loop" /\ tick.todo = {})
\* C13: in the cascade the pairing row's delete is attempted whether or not
\* the message rows' delete failed, a failed pairing row's delete leaves the
\* message rows deleted, and after either failure the tick is back in its
\* loop with the rest of its snapshot still to do; a tick that has its
\* snapshot ends only when the snapshot is exhausted.
C13_DeletesIndependent == []C13_Inv /\ [][C13_Step]_vars

\* C13 witness: both deletes of a row were attempted and failed, and the
\* tick is in its loop with another row to probe.
C13_Witness ==
    /\ RowDone /\ tick.delMsgs = "err" /\ tick.delPair = "err"
    /\ \E r \in tick.todo : r[2] > 1

\* The last run of CleanUpMsg since the store was changed succeeded.
SweptSince == sweep.log # <<>> /\ sweep.log[Len(sweep.log)].ok
\* The cascade of the tick's current row failed in one of its deletes, or
\* stands between its two deletes.
PartialCascade ==
    \/ RowDone /\ tick.act = "cascade" /\ tick.delMsgs = "err" /\ tick.delPair = "ok"
    \/ RowDone /\ tick.act = "cascade" /\ tick.delMsgs = "ok" /\ tick.delPair = "err"
    \/ tick.pc = "del_pair"

\* C14 as stated: once CleanUpMsg has succeeded after a cascade that failed
\* in part or stands between its deletes, in a store that held no orphan when
\* the cascade began, no message row is left whose (tgChatId, tgThreadId) has
\* no pairing row; and a tick whose probe says NotFound and whose deletes
\* succeed leaves neither the pairing row nor its message rows.
C14_TwoTierRepair ==
    /\ (PartialCascade /\ tick.clean /\ SweptSince) => Orphans(msgs, pairs) = {}
    /\ (RowDone /\ NotFoundText(tick.probeErr)
            /\ tick.delMsgs = "ok" /\ tick.delPair = "ok") =>
                (tick.cur \notin pairs /\ CurMsgs = {})

(***************************************************************************)
(* Properties of the probes.                                               *)
(***************************************************************************)
\* The forum API calls in progress: the jobs the worker is inside, and the
\* call a scheduler makes on its own goroutine.
ForumCallsRunning ==
    Cardinality(exec) + (IF legacy.pc = "probing" THEN 1 ELSE 0)

\* C15 as stated: the probes of both schedulers go through the forum queue,
\* so that jobs start in the order they were enqueued and no two forum API
\* calls, a probe among them, are in progress at the same time.
C15_ProbesThroughQueue ==
    /\ IsPrefix(startOrder, enqOrder)
    /\ ForumCallsRunning <= 1

(***************************************************************************)
(* Properties of the queue, continued.                                     *)
(***************************************************************************)
\* Job c was enqueued before job d.
EnqueuedBefore(c, d) ==
    \E i, k \in DOMAIN enqOrder : i < k /\ enqOrder[i] = c /\ enqOrder[k] = d

C16_Inv ==
    /\ idle + Cardinality(exec) + asleep = started
    /\ \A c \in Apps :
          proc[c].pc = "done" => (execCount[c] = 1 /\ proc[c].ret = produced[c])
C16_Step ==
    \A c \in Apps :
        (execCount'[c] = execCount[c] + 1 /\ ~produced'[c].e.isNil) =>
            idle' + asleep' = idle + asleep + 1
\* C16: no worker is ever lost: each started worker is waiting for a job,
\* inside a job or in its sleep, and the step in which a job returns an error
\* puts its worker back in the loop; a submitter that has returned got the
\* result of its own job, executed once.
C16_WorkerSurvivesError == []C16_Inv /\ [][C16_Step]_vars

\* C16 witness: with one worker, a job failed and its submitter got the
\* error; a job enqueued after it was executed and its submitter has its
\* result too.
C16_Witness ==
    /\ started = 1
    /\ \E c, d \in Apps :
          /\ EnqueuedBefore(c, d)
          /\ proc[c].pc = "done" /\ ~proc[c].ret.e.isNil
          /\ proc[d].pc = "done" /\ proc[d].ret = produced[d]
          /\ execCount[d] = 1

C17_Inv ==
    /\ \A x \in exec : Len(resCh[JobResultCh(x.job)]) < ResultChCap
    /\ \A c \in Apps :
          proc[c].pc = "gone" =>
              /\ execCount[c] <= 1 /\ writeCount[c] = execCount[c]
              /\ JobsInCh(c) + JobsInExec(c) + execCount[c] = 1
    /\ started = 1 => IsPrefix(startOrder, enqOrder)
C17_Step ==
    \A c \in Apps :
        (proc[c].pc = "gone" /\ execCount'[c] = execCount[c] + 1) =>
            (idle' + asleep' = idle + asleep + 1 /\ Len(resCh'[c]) = 1)
\* C17: whenever the worker is inside a job, the ch that job writes to is
\* empty, so the write does not block, whether or not the submitter still
\* waits; the job of a submitter that gave up stays in the queue until it is
\* executed, once, its result is left in its ch and its worker goes back to
\* the loop; and jobs keep starting in the order they were enqueued.
C17_AbandonedSubmitter == []C17_Inv /\ [][C17_Step]_vars

\* C17 witness: with one worker, a submitter gave up, its job was executed
\* all the same, and a job enqueued behind it was executed and its submitter
\* has the result.
C17_Witness ==
    /\ started = 1
    /\ \E c, d \in Apps :
          /\ EnqueuedBefore(c, d)
          /\ proc[c].pc = "gone" /\ execCount[c] = 1 /\ Len(resCh[c]) = 1
          /\ proc[d].pc = "done" /\ proc[d].ret = produced[d]

\* Before StartWorkers is called the jobs sent stay in the buffer.
C18_Inv ==
    started = 0 => (exec = {} /\ startOrder = <<>> /\ jobCh = enqOrder)
\* C18: while no worker is started the jobs sent wait in the buffer; and
\* once a worker is started every call that is under way, blocked in its
\* send or waiting for its result, eventually returns.
C18_SubmitReturns ==
    /\ []C18_Inv
    /\ \A c \in Apps :
          (started >= 1 /\ proc[c].pc \in {"send", "recv"}) ~> (proc[c].pc = "done")

\* C18 witness: every call has returned, one of them after it was blocked
\* on the full buffer long enough for a later call to be enqueued first.
C18_Witness ==
    /\ \A c \in Apps : proc[c].pc = "done"
    /\ \E c, d \in Apps : c < d /\ EnqueuedBefore(d, c)

(***************************************************************************)
(* Properties of the scheduler: overlapping ticks.                         *)
(***************************************************************************)
\* The rows of the target chat whose topic answers a probe with a not-found
\* error, in a world where each topic gives one answer.
DeadRow(c, t) ==
    c = TargetChatID /\ t > 1 /\ NotFoundText(world.outcome[t])
\* The store one tick leaves when its deletes succeed.
SingleTickPairs == {p \in ov.orig.pairs : ~DeadRow(p[1], p[2])}
SingleTickMsgs ==
    {m \in ov.orig.msgs :
        ~(DeadRow(m[1], m[2]) /\ <<m[1], m[2]>> \in ov.orig.pairs)}
\* Every run that was started has returned, and there were two at least.
BothTicksDone == ov.on /\ ov.started >= 2 /\ ov.ended = ov.started

C19_Inv ==
    (BothTicksDone /\ world.stable /\ world.reliable) =>
        (pairs = SingleTickPairs /\ msgs = SingleTickMsgs)
C19_Step ==
    (pairs' # pairs \/ msgs' # msgs) =>
        /\ tick.pc \in {"del_msgs", "del_pair"}
        /\ NotFoundText(tick.probeErr)
        /\ tick.probeErr \in ProbeOutcomes(tick.cur)
        /\ RemovedPairs \subseteq {tick.cur}
        /\ RemovedMsgs \subseteq CurMsgs
        /\ pairs' \subseteq pairs
        /\ msgs' \subseteq msgs
\* C19: when two runs of cleanupDeletedTopics overlap over the same pairing
\* set, a step removes rows only of the row whose probe, in the run taking
\* the step, returned a not-found error; and when every topic gives one
\* answer and the store's operations succeed, the store left once both runs
\* have returned is the store a single run leaves.
C19_OverlappingTicks == []C19_Inv /\ [][C19_Step]_vars

\* C19 witness: both runs have returned after both were at the deletes of
\* the same row at once, and the row and its messages are gone while the
\* General topic's and the other chat's rows remain.
C19_Witness ==
    /\ BothTicksDone /\ world.stable /\ world.reliable
    /\ ov.overlapped
    /\ pairs # ov.orig.pairs /\ msgs # ov.orig.msgs
    /\ pairs # {} /\ msgs # {}

(***************************************************************************)
(* Properties of the scheduler: a tick that cannot start.                  *)
(***************************************************************************)
\* A probe of the tick is in the forum queue or on the worker.
ProbeInFlight == JobsInCh(TickJob) + JobsInExec(TickJob) > 0

C20_Inv ==
    /\ ~botPresent => (tick = TickIdle /\ ~ProbeInFlight)
    /\ tick.sync # "-" => tick.pc = "fetch"
    /\ tick.pc \in {"wait", "fetch"} =>
            (~ProbeInFlight /\ tick.todo = {} /\ tick.cur = NoRow)
C20_Step ==
    /\ (tick' # tick /\ tick.pc \in {"wait", "fetch"}) =>
            (pairs' = pairs /\ msgs' = msgs /\ jobCh' = jobCh)
    /\ (tick' # tick /\ tick.pc = "fetch") =>
            \/ tick' = TickIdle
            \/ /\ tick'.pc = "loop"
               /\ tick'.todo = ChatThreadGetAllPairs(pairs, TargetChatID)
               /\ dbPresent
    /\ ~botPresent => (pairs' = pairs /\ jobCh' = jobCh)
\* C20: without the bot handle no tick gets under way, no probe is sent and
\* no pairing row is deleted; a tick whose contact resynchronisation has
\* returned, failed or not, is about to read the pairing set; until the set
\* is read nothing is sent to the queue and no row is deleted, and the read
\* either ends the tick there or gives it its snapshot.
C20_TickCannotStart == []C20_Inv /\ [][C20_Step]_vars

\* C20 witness: the contact resynchronisation failed and the tick is about
\* to read the pairing set, which holds a row to probe.
C20_Witness ==
    /\ tick.pc = "fetch" /\ tick.sync = "err"
    /\ \E p \in pairs : p[1] = TargetChatID /\ p[2] > 1

====
